---- MODULE Spec2Model ----
(***************************************************************************)
(* A model of netcore (src/src/main.rs): the concurrent dual-stack port    *)
(* scan, the binding of the two real listeners, the two accept loops and   *)
(* the per-connection echo handlers.                                       *)
(*                                                                         *)
(* Ports are the integers 0..MaxPort (u16 in the source).  Port 0 is the   *)
(* OS "pick a port for me" request and can never be occupied itself.       *)
(* Whether the two address families are separate bind namespaces is the    *)
(* host's choice (dualStack): neither tokio nor the program sets           *)
(* IPV6_V6ONLY, so where the host makes an IPv6 wildcard socket dual-stack *)
(* (Linux with net.ipv6.bindv6only = 0) a listening socket on 0.0.0.0:p    *)
(* makes a bind of [::]:p fail, and the reverse.                           *)
(***************************************************************************)
EXTENDS Integers, Sequences, FiniteSets, TLC

\* ---------------------------------------------------------------- bounds
\* Highest port number of the modelled port space (65535 in the source).
MaxPort == 2

Ports == 0..MaxPort

\* The range main scans, 6881..=6900 in the source, scaled to the port space
\* of the model.
MainStart == 1

MainEnd == 2

\* How many times sockets outside the program are bound or released in a run.
MaxEnvSteps == 2

\* How many clients connect in a run.
MaxConns == 2

Conns == 1..MaxConns

\* How many bytes the clients send in a run, all connections together.
MaxBytes == 2

\* The length of handle_client's buffer, 1024 in the source, scaled to the
\* number of bytes the clients send.
BufSize == 2

\* How many distinct addresses a lookup can come back with.
MaxAddr == 1

Addrs == 1..MaxAddr

\* IPv4 and IPv6, named by their number.
Families == {4, 6}

\* Option<T>: None is the empty sequence, Some(x) the one-element sequence.
None == << >>

Some(x) == << x >>

VARIABLES
    lookup,     \* per field of HostInfo: its lookup, "pending" or what it returned
    timer,      \* per field: whether the 2 s of its timeout have elapsed
    joined,     \* per field: its timeout future's output in join!, None while
                \* pending, then Some(<<"Ok", v>>) or Some(<<"Err">>) (Elapsed)
    info,       \* get_host_info's return value: None until it returns
    start,      \* find_available_port_parallel's first argument
    end,        \* find_available_port_parallel's second argument
    occ,        \* <<port, family>> pairs held by sockets outside the program
    dualStack,  \* the host: TRUE when an IPv6 wildcard socket takes the IPv4
                \* port too (IPV6_V6ONLY off by default), FALSE when it does not
    tasks,      \* the Vec of JoinHandles, as the sequence of the probes' ports
    pst,        \* per port: the probe task, "unspawned" | "running" | "done" | "failed"
    psock,      \* per port and family: the test bind, "todo" | "bound" | "ok" | "err" | "dropped"
    pres,       \* per port: the probe task's output, None or Some(<<port, available>>)
    scanPc,     \* the scanner: "spawn" | "await" | "done"
    idx,        \* the scanner's position in tasks while it awaits them (1-based)
    result,     \* the scanner's return value once scanPc = "done": None or Some(port)
    mainPc,     \* main: "hostinfo" | "scan" | "bind4" | "bind6" | "serving" | "exited" | "panicked"
    port,       \* main's `port`, the Some(port) arm's binding: None until then
    listener,   \* per family: the real listener's local port, None while unbound
    envSteps,   \* how many times the sockets outside the program changed
    backlog,    \* per family: the connections waiting in the listener's accept queue
    accepted,   \* per family: the connections the accept loop accepted, in order
    acceptErrAt, \* per family: None, or Some(how many connections the loop had
                \* accepted when its accept() last returned Err)
    cstate,     \* per connection, the client's side: "free" | "open" | "closed"
    sent,       \* per connection: every byte the client has sent, in order
    inbuf,      \* per connection: the bytes sent that the server has not read yet
    hpc,        \* per connection: the handler task, "none" | "read" | "write" | "done"
    buffer,     \* per connection: handle_client's `buffer`, BufSize bytes
    hn,         \* per connection: n of the handler's last Ok(n) read
    wpos,       \* per connection: how much of buffer[..n] write_all has written
    rcvd,       \* per connection: every byte the handler has read, in order
    echoed,     \* per connection: every byte the handler has written back, in order
    hend        \* per connection: why the handler stopped, "" | "eof" | "readerr" | "writeerr"

hostVars == << lookup, timer, joined, info >>

scanVars == << start, end, occ, dualStack, tasks, pst, psock, pres, scanPc, idx, result >>

mainVars == << mainPc, port, listener, envSteps >>

acceptVars == << backlog, accepted, acceptErrAt >>

clientVars == << cstate, sent, inbuf >>

handlerVars == << hpc, buffer, hn, wpos, rcvd, echoed, hend >>

serveVars == << acceptVars, clientVars, handlerVars >>

vars == << hostVars, scanVars, mainVars, serveVars >>

\* The process runs: main neither returned nor panicked.  When it has, the
\* runtime is gone and no task takes another step.
Alive == mainPc \notin {"exited", "panicked"}

\* ------------------------------------------------------- get_host_info

\* The fields of HostInfo, one lookup each.
Fields == {"local_ipv4", "public_ipv4", "local_ipv6", "public_ipv6"}

LocalFields == {"local_ipv4", "local_ipv6"}

\* The address family a field's Option holds.
FamilyOf(fld) == IF fld \in {"local_ipv4", "public_ipv4"} THEN 4 ELSE 6

\* What a lookup can come back with.  A local one runs local_ip() or
\* local_ipv6() on a blocking thread: the call returns Ok(IpAddr) of either
\* family or Err, or the thread panics.  A public one (public_ip::addr_v4,
\* addr_v6) returns an Option of its own family.
LocalRaw == {<< "ok", f, a >> : f \in Families, a \in Addrs} \cup {<< "err" >>, << "panic" >>}

PublicRaw == {None} \cup {Some(a) : a \in Addrs}

RawOf(fld) == IF fld \in LocalFields THEN LocalRaw ELSE PublicRaw

\* get_local_ipv4 / get_local_ipv6 on what the blocking call came back with:
\* .ok().and_then(match) keeps an address of the function's own family,
\* .await.ok().flatten() turns a JoinError into None.
GetLocal(fam, raw) ==
    IF raw[1] = "ok" /\ raw[2] = fam THEN Some(raw[3]) ELSE None

\* The Option<addr> the future inside a field's timeout resolves to.
LookupValue(fld, raw) ==
    IF fld \in LocalFields THEN GetLocal(FamilyOf(fld), raw) ELSE raw

\* .ok().flatten() of a timeout's output: Err(Elapsed) becomes None,
\* Ok(option) the option.
OkFlatten(j) == IF j[1] = "Ok" THEN j[2] ELSE None

\* Mutant of HostInfoOf: one lookup that timed out makes the whole HostInfo
\* absent (as with try_join! or one timeout around the join).
HostInfoAllOrNothing ==
    IF \E fld \in Fields : joined[fld][1][1] = "Err"
    THEN [fld \in Fields |-> None]
    ELSE [fld \in Fields |-> OkFlatten(joined[fld][1])]

\* The HostInfo literal built from the four join! results.
HostInfoOf == [fld \in Fields |-> OkFlatten(joined[fld][1])]

\* The lookup of a field comes back; one that hangs never takes this step.
\* A lookup whose timeout has resolved is dropped and returns to nobody.
LookupReturn(fld, raw) ==
    /\ mainPc = "hostinfo"
    /\ lookup[fld] = None
    /\ joined[fld] = None
    /\ lookup' = [lookup EXCEPT ![fld] = Some(raw)]
    /\ UNCHANGED << timer, joined, info, scanVars, mainVars, serveVars >>

\* TIMEOUT_SECS have passed on the timeout of a field.
TimerElapse(fld) ==
    /\ mainPc = "hostinfo"
    /\ ~timer[fld]
    /\ joined[fld] = None
    /\ timer' = [timer EXCEPT ![fld] = TRUE]
    /\ UNCHANGED << lookup, joined, info, scanVars, mainVars, serveVars >>

\* join! polls the timeout of a field that can resolve: timeout polls the
\* lookup first and yields Ok(value) when it is ready, and Err(Elapsed)
\* otherwise when the time has passed.
TimeoutPoll(fld) ==
    /\ mainPc = "hostinfo"
    /\ joined[fld] = None
    /\ lookup[fld] # None \/ timer[fld]
    /\ joined' = [joined EXCEPT ![fld] =
                    IF lookup[fld] # None
                    THEN Some(<< "Ok", LookupValue(fld, lookup[fld][1]) >>)
                    ELSE Some(<< "Err" >>)]
    /\ UNCHANGED << lookup, timer, info, scanVars, port, listener, envSteps, mainPc, serveVars >>

\* join! has all four outputs: get_host_info returns the HostInfo, main
\* prints its fields and goes on to the scan.
GetHostInfoReturn ==
    /\ mainPc = "hostinfo"
    /\ \A fld \in Fields : joined[fld] # None
    /\ info' = Some(HostInfoOf)
    /\ mainPc' = "scan"
    /\ UNCHANGED << lookup, timer, joined, scanVars, port, listener, envSteps, serveVars >>

\* get_host_info as it has returned when main calls the scanner: here every
\* lookup came back in time with an address of its family.
HostInfoDone ==
    /\ lookup = [fld \in Fields |->
                   IF fld \in LocalFields THEN Some(<< "ok", FamilyOf(fld), 1 >>)
                                          ELSE Some(Some(1))]
    /\ timer = [fld \in Fields |-> FALSE]
    /\ joined = [fld \in Fields |-> Some(<< "Ok", Some(1) >>)]
    /\ info = Some([fld \in Fields |-> Some(1)])

\* ------------------------------------------------------------- the scan

\* Mutant of PortRange: start..end, the half-open range, which leaves out end.
PortRangeExclusive(s, e) == {p \in Ports : s <= p /\ p < e}

\* Mutant of PortRange: the bounds are put in order first, so that a range
\* given backwards is scanned instead of being empty.
PortRangeNormalised(s, e) ==
    {p \in Ports : (IF s <= e THEN s ELSE e) <= p /\ p <= (IF s <= e THEN e ELSE s)}

\* start..=end of a u16 RangeInclusive: empty when start > end.
PortRange(s, e) == {p \in Ports : s <= p /\ p <= e}

\* The sockets that probe tasks hold at this moment.
ProbeHeld == {pf \in Ports \X Families : psock[pf[1]][pf[2]] = "bound"}

\* The sockets that main's two real listeners hold at this moment.
ListenerHeld == {pf \in Ports \X Families : listener[pf[2]] = Some(pf[1])}

\* Every socket that holds a <<port, family>> pair at this moment.
Held == occ \cup ProbeHeld \cup ListenerHeld

\* Mutant of CanBind: check_port_ipv6 binds the IPv4 wildcard address too,
\* so only the IPv4 occupancy is ever looked at.
CanBindV4Only(p, f) == p = 0 \/ <<p, 4>> \notin Held

\* The other address family.
Other(f) == IF f = 4 THEN 6 ELSE 4

\* What a socket of the other family that stays open does to a bind of
\* <<p, f>>: on a dual-stack host it is in the way.  The two test sockets of
\* one probe are not counted: each check binds and drops its socket within
\* one poll and join! polls the two checks in turn, so they are never open
\* together, and no other probe binds p.
OtherFamilyInTheWay(p, f) ==
    dualStack /\ <<p, Other(f)>> \in (occ \cup ListenerHeld)

\* TcpListener::bind on the wildcard address of family f, port p: it succeeds
\* iff no socket holds <<p, f>> and none of the other family is in the way;
\* port 0 asks the OS for any free port.
CanBind(p, f) == p = 0 \/ (<<p, f>> \notin Held /\ ~OtherFamilyInTheWay(p, f))

\* Mutant of IsPortAvailable: || in place of &&.
IsPortAvailableEither(ipv4_ok, ipv6_ok) == ipv4_ok \/ ipv6_ok

\* is_port_available's return value from the two checks' results.
IsPortAvailable(ipv4_ok, ipv6_ok) == ipv4_ok /\ ipv6_ok

\* The next port the spawning iterator yields, from how many it has yielded.
\* RangeInclusive<u16> stops by a flag once it has yielded end instead of
\* stepping past it, so no u16 addition overflows when end is 65535; the
\* sum below is of unbounded integers and compared with the range only.
NextToSpawn == start + Len(tasks)

\* tokio::spawn of the probe of the next port of the range (one .map step).
ScanSpawn ==
    /\ Alive
    /\ scanPc = "spawn"
    /\ NextToSpawn \in PortRange(start, end)
    /\ tasks' = Append(tasks, NextToSpawn)
    /\ pst' = [pst EXCEPT ![NextToSpawn] = "running"]
    /\ UNCHANGED << hostVars, mainVars, serveVars >>
    /\ UNCHANGED << dualStack, start, end, occ, psock, pres, scanPc, idx, result >>

\* .collect() ends: the range is exhausted, the for loop starts.
ScanCollected ==
    /\ Alive
    /\ scanPc = "spawn"
    /\ NextToSpawn \notin PortRange(start, end)
    /\ scanPc' = "await"
    /\ idx' = 1
    /\ UNCHANGED << hostVars, mainVars, serveVars >>
    /\ UNCHANGED << dualStack, start, end, occ, tasks, pst, psock, pres, result >>

\* check_port_ipv4 / check_port_ipv6 of probe p: the bind attempt.
CheckPortBind(p, f) ==
    /\ Alive
    /\ pst[p] = "running"
    /\ psock[p][f] = "todo"
    /\ psock' = [psock EXCEPT ![p][f] = IF CanBind(p, f) THEN "bound" ELSE "err"]
    /\ UNCHANGED << hostVars, mainVars, serveVars >>
    /\ UNCHANGED << dualStack, start, end, occ, tasks, pst, pres, scanPc, idx, result >>

\* check_port_ipv4 / check_port_ipv6 of probe p returns is_ok(): the
\* temporary listener is dropped, which closes the test socket.
CheckPortDrop(p, f) ==
    /\ Alive
    /\ pst[p] = "running"
    /\ psock[p][f] = "bound"
    /\ psock' = [psock EXCEPT ![p][f] = "ok"]
    /\ UNCHANGED << hostVars, mainVars, serveVars >>
    /\ UNCHANGED << dualStack, start, end, occ, tasks, pst, pres, scanPc, idx, result >>

\* Mutant of ProbeComplete: the check functions hand their listeners back
\* instead of dropping them, and the task ends while they are still open.
ProbeCompleteHolding(p) ==
    /\ Alive
    /\ pst[p] = "running"
    /\ \A f \in Families : psock[p][f] \in {"bound", "ok", "err"}
    /\ pst' = [pst EXCEPT ![p] = "done"]
    /\ pres' = [pres EXCEPT ![p] =
                  Some(<< p, IsPortAvailable(psock[p][4] # "err", psock[p][6] # "err") >>)]
    /\ UNCHANGED << hostVars, mainVars, serveVars >>
    /\ UNCHANGED << dualStack, start, end, occ, tasks, psock, scanPc, idx, result >>

\* The probe task of p ends: join! has both results, the task outputs
\* (port, is_port_available(port)).
ProbeComplete(p) ==
    /\ Alive
    /\ pst[p] = "running"
    /\ \A f \in Families : psock[p][f] \in {"ok", "err"}
    /\ pst' = [pst EXCEPT ![p] = "done"]
    /\ pres' = [pres EXCEPT ![p] =
                  Some(<< p, IsPortAvailable(psock[p][4] = "ok", psock[p][6] = "ok") >>)]
    /\ UNCHANGED << hostVars, mainVars, serveVars >>
    /\ UNCHANGED << dualStack, start, end, occ, tasks, psock, scanPc, idx, result >>

\* The probe task of p does not complete (it panics or is cancelled): its
\* JoinHandle yields Err(JoinError); the task's future is dropped, and with
\* it any test socket it holds.
ProbeAbort(p) ==
    /\ Alive
    /\ pst[p] = "running"
    /\ pst' = [pst EXCEPT ![p] = "failed"]
    /\ psock' = [psock EXCEPT ![p] = [f \in Families |-> "dropped"]]
    /\ UNCHANGED << hostVars, mainVars, serveVars >>
    /\ UNCHANGED << dualStack, start, end, occ, tasks, pres, scanPc, idx, result >>

\* Mutant of Inspect: `task.await.ok()?` in place of `if let Ok(..)`, which
\* returns None from the scan at the first probe that did not complete.
InspectFailFast(p) ==
    IF pst[p] = "failed"
    THEN << "return", None >>
    ELSE IF pres[p][1][2]
         THEN << "return", Some(pres[p][1][1]) >>
         ELSE << "continue" >>

\* Mutant of Inspect: port 0 is filtered (`if available && port != 0`).
InspectNonZero(p) ==
    IF pst[p] = "done" /\ pres[p][1][2] /\ pres[p][1][1] # 0
    THEN << "return", Some(pres[p][1][1]) >>
    ELSE << "continue" >>

\* The body of `for task in tasks` for the outcome of task.await on the
\* probe of port p: <<"return", Some(port)>> when it is Ok((port, true)),
\* <<"continue">> when it is Ok((port, false)) or Err(JoinError).
Inspect(p) ==
    IF pst[p] = "done" /\ pres[p][1][2]
    THEN << "return", Some(pres[p][1][1]) >>
    ELSE << "continue" >>

\* Mutant of ScanAwait: a probe that has not finished when the loop comes to
\* it is passed over (is_finished() is tested instead of awaiting).
ScanAwaitSkipPending ==
    /\ Alive
    /\ scanPc = "await"
    /\ idx <= Len(tasks)
    /\ LET r == Inspect(tasks[idx])
       IN  IF r[1] = "return"
           THEN /\ result' = r[2]
                /\ scanPc' = "done"
                /\ idx' = idx
           ELSE /\ idx' = idx + 1
                /\ UNCHANGED << result, scanPc >>
    /\ UNCHANGED << hostVars, mainVars, serveVars >>
    /\ UNCHANGED << dualStack, start, end, occ, tasks, pst, psock, pres >>

\* Mutant of ScanAwait: the probes are taken in completion order (as with a
\* FuturesUnordered): any finished probe that reports available is returned.
ScanAwaitCompletionOrder ==
    /\ Alive
    /\ scanPc = "await"
    /\ idx <= Len(tasks)
    /\ \E i \in idx..Len(tasks) :
          /\ pst[tasks[i]] \in {"done", "failed"}
          /\ LET r == Inspect(tasks[i])
             IN  IF r[1] = "return"
                 THEN /\ result' = r[2]
                      /\ scanPc' = "done"
                      /\ idx' = idx
                 ELSE /\ i = idx
                      /\ idx' = idx + 1
                      /\ UNCHANGED << result, scanPc >>
    /\ UNCHANGED << hostVars, mainVars, serveVars >>
    /\ UNCHANGED << dualStack, start, end, occ, tasks, pst, psock, pres >>

\* One iteration of `for task in tasks`: task.await is ready once the task
\* is done or failed.
ScanAwait ==
    /\ Alive
    /\ scanPc = "await"
    /\ idx <= Len(tasks)
    /\ pst[tasks[idx]] \in {"done", "failed"}
    /\ LET r == Inspect(tasks[idx])
       IN  IF r[1] = "return"
           THEN /\ result' = r[2]
                /\ scanPc' = "done"
                /\ idx' = idx
           ELSE /\ idx' = idx + 1
                /\ UNCHANGED << result, scanPc >>
    /\ UNCHANGED << hostVars, mainVars, serveVars >>
    /\ UNCHANGED << dualStack, start, end, occ, tasks, pst, psock, pres >>

\* The for loop ends without a return: the function returns None.
ScanExhausted ==
    /\ Alive
    /\ scanPc = "await"
    /\ idx > Len(tasks)
    /\ result' = None
    /\ scanPc' = "done"
    /\ UNCHANGED << hostVars, mainVars, serveVars >>
    /\ UNCHANGED << dualStack, start, end, occ, tasks, pst, psock, pres, idx >>

\* ------------------------------------------------------------------ main

\* Mutant of MainScanDone: the None arm falls back to the first port of the
\* range (`unwrap_or(start)`) instead of giving up.
MainScanDoneFallback ==
    /\ mainPc = "scan"
    /\ scanPc = "done"
    /\ port' = IF result # None THEN result ELSE Some(start)
    /\ mainPc' = "bind4"
    /\ UNCHANGED << hostVars, scanVars, listener, envSteps, serveVars >>

\* main's match on the scan's result: Some(port) goes on to bind, None
\* prints "No available port found" and main returns.
MainScanDone ==
    /\ mainPc = "scan"
    /\ scanPc = "done"
    /\ IF result # None
       THEN /\ port' = result
            /\ mainPc' = "bind4"
       ELSE /\ port' = port
            /\ mainPc' = "exited"
    /\ UNCHANGED << hostVars, scanVars, listener, envSteps, serveVars >>

\* The family main binds at this point, and main's next point after it.
BindFamily == IF mainPc = "bind4" THEN 4 ELSE 6

AfterBind == IF mainPc = "bind4" THEN "bind6" ELSE "serving"

\* The ports the OS hands out to a bind of port 0.  The model keeps them
\* apart from the candidates of a scan, and one of them is always free.
Ephemeral == {MaxPort + 1, MaxPort + 2}

\* The local port a successful bind of port p on family f ends on: p itself,
\* or, for port 0, a port the OS picks, for each socket on its own.
LocalPorts(p, f) == IF p = 0 THEN Ephemeral ELSE {p}

\* Mutant of MainBind: a failed bind is logged and skipped instead of
\* unwrapped, and main goes on with the listeners it has.
MainBindLenient ==
    /\ mainPc \in {"bind4", "bind6"}
    /\ IF CanBind(port[1], BindFamily)
       THEN \E q \in LocalPorts(port[1], BindFamily) :
                listener' = [listener EXCEPT ![BindFamily] = Some(q)]
       ELSE listener' = listener
    /\ mainPc' = AfterBind
    /\ UNCHANGED << hostVars, scanVars, port, envSteps, serveVars >>

\* TcpListener::bind(..).await.unwrap() for the IPv4 listener, then for the
\* IPv6 listener: Err panics main, which ends the process and closes every
\* socket it holds.
MainBind ==
    /\ mainPc \in {"bind4", "bind6"}
    /\ IF CanBind(port[1], BindFamily)
       THEN /\ \E q \in LocalPorts(port[1], BindFamily) :
                  listener' = [listener EXCEPT ![BindFamily] = Some(q)]
            /\ mainPc' = AfterBind
       ELSE /\ listener' = [f \in Families |-> None]
            /\ mainPc' = "panicked"
    /\ UNCHANGED << hostVars, scanVars, port, envSteps, serveVars >>

\* A socket outside the program binds <<p, f>>.
ExternalBind(p, f) ==
    /\ envSteps < MaxEnvSteps
    /\ p # 0
    /\ <<p, f>> \notin Held
    /\ occ' = occ \cup {<<p, f>>}
    /\ envSteps' = envSteps + 1
    /\ UNCHANGED << dualStack, start, end, tasks, pst, psock, pres, scanPc, idx, result >>
    /\ UNCHANGED << hostVars, mainPc, port, listener, serveVars >>

\* A socket outside the program that holds <<p, f>> is closed.
ExternalRelease(p, f) ==
    /\ envSteps < MaxEnvSteps
    /\ <<p, f>> \in occ
    /\ occ' = occ \ {<<p, f>>}
    /\ envSteps' = envSteps + 1
    /\ UNCHANGED << dualStack, start, end, tasks, pst, psock, pres, scanPc, idx, result >>
    /\ UNCHANGED << hostVars, mainPc, port, listener, serveVars >>

\* ------------------------------------------------------ the accept loops

\* No client has connected yet, no handler exists.
NoConnections ==
    /\ backlog = [f \in Families |-> << >>]
    /\ accepted = [f \in Families |-> << >>]
    /\ acceptErrAt = [f \in Families |-> None]
    /\ cstate = [c \in Conns |-> "free"]
    /\ sent = [c \in Conns |-> << >>]
    /\ inbuf = [c \in Conns |-> << >>]
    /\ hpc = [c \in Conns |-> "none"]
    /\ buffer = [c \in Conns |-> [i \in 1..BufSize |-> 0]]
    /\ hn = [c \in Conns |-> 0]
    /\ wpos = [c \in Conns |-> 0]
    /\ rcvd = [c \in Conns |-> << >>]
    /\ echoed = [c \in Conns |-> << >>]
    /\ hend = [c \in Conns |-> ""]

\* A client connects to the listener of family f: the kernel completes the
\* handshake and queues the connection, whether or not anyone accepts.
ClientConnect(c, f) ==
    /\ cstate[c] = "free"
    /\ listener[f] # None
    /\ cstate' = [cstate EXCEPT ![c] = "open"]
    /\ backlog' = [backlog EXCEPT ![f] = Append(@, c)]
    /\ UNCHANGED << hostVars, scanVars, mainVars, accepted, acceptErrAt, sent, inbuf, handlerVars >>

\* Mutant of AcceptOk: main awaits run_server_ipv4 to its end before it
\* starts run_server_ipv6 (two awaits in place of join!), and the first loop
\* never ends.
AcceptOkSequential(f) ==
    /\ mainPc = "serving"
    /\ f = 4
    /\ backlog[f] # << >>
    /\ backlog' = [backlog EXCEPT ![f] = Tail(@)]
    /\ accepted' = [accepted EXCEPT ![f] = Append(@, Head(backlog[f]))]
    /\ hpc' = [hpc EXCEPT ![Head(backlog[f])] = "read"]
    /\ UNCHANGED << hostVars, scanVars, mainVars, acceptErrAt, clientVars >>
    /\ UNCHANGED << buffer, hn, wpos, rcvd, echoed, hend >>

\* Mutant of AcceptOk: the loop awaits handle_client itself instead of
\* spawning it, so it accepts again only when every handler it started ended.
AcceptOkInline(f) ==
    /\ mainPc = "serving"
    /\ backlog[f] # << >>
    /\ \A i \in 1..Len(accepted[f]) : hpc[accepted[f][i]] = "done"
    /\ backlog' = [backlog EXCEPT ![f] = Tail(@)]
    /\ accepted' = [accepted EXCEPT ![f] = Append(@, Head(backlog[f]))]
    /\ hpc' = [hpc EXCEPT ![Head(backlog[f])] = "read"]
    /\ UNCHANGED << hostVars, scanVars, mainVars, acceptErrAt, clientVars >>
    /\ UNCHANGED << buffer, hn, wpos, rcvd, echoed, hend >>

\* run_server_ipv4 / run_server_ipv6, the Ok arm: accept() yields the
\* oldest queued connection, the loop spawns handle_client on it as a task
\* of its own and goes back to accept().
AcceptOk(f) ==
    /\ mainPc = "serving"
    /\ backlog[f] # << >>
    /\ backlog' = [backlog EXCEPT ![f] = Tail(@)]
    /\ accepted' = [accepted EXCEPT ![f] = Append(@, Head(backlog[f]))]
    /\ hpc' = [hpc EXCEPT ![Head(backlog[f])] = "read"]
    /\ UNCHANGED << hostVars, scanVars, mainVars, acceptErrAt, clientVars >>
    /\ UNCHANGED << buffer, hn, wpos, rcvd, echoed, hend >>

\* Mutant of AcceptErr: `listener.accept().await.unwrap()` in place of the
\* match: the error panics main, inside which both loops run.
AcceptErrFatal(f) ==
    /\ mainPc = "serving"
    /\ acceptErrAt' = [acceptErrAt EXCEPT ![f] = Some(Len(accepted[f]))]
    /\ mainPc' = "panicked"
    /\ listener' = [g \in Families |-> None]
    /\ UNCHANGED << hostVars, scanVars, port, envSteps, backlog, accepted, clientVars, handlerVars >>

\* run_server_ipv4 / run_server_ipv6, the Err arm: accept() returns Err
\* (nothing is taken from the queue), the error is printed and the loop goes
\* back to accept().
AcceptErr(f) ==
    /\ mainPc = "serving"
    /\ acceptErrAt' = [acceptErrAt EXCEPT ![f] = Some(Len(accepted[f]))]
    /\ UNCHANGED << hostVars, scanVars, mainVars, backlog, accepted, clientVars, handlerVars >>

\* ---------------------------------------------- clients and handle_client

Min(a, b) == IF a <= b THEN a ELSE b

\* The i-th byte a client sends on connection c.  handle_client never looks
\* at a byte's value, so one value per connection and position stands for
\* every payload; 0, the buffer's initial fill, is never sent.
Stamp(c, i) == 10 * c + i

\* The number of bytes sent so far on connections 1..n.
RECURSIVE SentUpTo(_)
SentUpTo(n) == IF n = 0 THEN 0 ELSE Len(sent[n]) + SentUpTo(n - 1)

\* The client of connection c sends its next byte (before or after the
\* connection is accepted), while fewer than cap bytes have been sent in all.
ClientSendWithin(c, cap) ==
    /\ cstate[c] = "open"
    /\ hpc[c] # "done"
    /\ SentUpTo(MaxConns) < cap
    /\ sent' = [sent EXCEPT ![c] = Append(@, Stamp(c, Len(@) + 1))]
    /\ inbuf' = [inbuf EXCEPT ![c] = Append(@, Stamp(c, Len(sent[c]) + 1))]
    /\ UNCHANGED << hostVars, scanVars, mainVars, acceptVars, cstate, handlerVars >>

ClientSend(c) == ClientSendWithin(c, MaxBytes)

\* The client of connection c makes a zero-length write: nothing reaches the
\* server.
ClientSendEmpty(c) ==
    /\ cstate[c] = "open"
    /\ hpc[c] # "done"
    /\ UNCHANGED vars

\* The client of connection c closes its sending side.
ClientClose(c) ==
    /\ cstate[c] = "open"
    /\ cstate' = [cstate EXCEPT ![c] = "closed"]
    /\ UNCHANGED << hostVars, scanVars, mainVars, acceptVars, sent, inbuf, handlerVars >>

\* Mutant of BufOf: one buffer shared by all handlers (a static) instead of
\* a local of handle_client.
BufShared(c) == 1

\* Whose buffer the handler of connection c reads into and writes from: its
\* own, `let mut buffer` being a local of handle_client.
BufOf(c) == c

\* Mutant of EchoSlice: write_all(&buffer) in place of &buffer[..n].
EchoWholeBuffer(c) == buffer[BufOf(c)]

\* &buffer[..n], what write_all is given.
EchoSlice(c) == SubSeq(buffer[BufOf(c)], 1, hn[c])

\* socket.read(&mut buffer) returns Ok(n), n > 0: the first n waiting bytes
\* (at most the buffer's length) overwrite buffer[..n].
HandlerRead(c) ==
    /\ hpc[c] = "read"
    /\ inbuf[c] # << >>
    /\ \E n \in 1..Min(Len(inbuf[c]), BufSize) :
          /\ buffer' = [buffer EXCEPT ![BufOf(c)] =
                          [i \in 1..BufSize |-> IF i <= n THEN inbuf[c][i] ELSE @[i]]]
          /\ hn' = [hn EXCEPT ![c] = n]
          /\ rcvd' = [rcvd EXCEPT ![c] = @ \o SubSeq(inbuf[c], 1, n)]
          /\ inbuf' = [inbuf EXCEPT ![c] = SubSeq(@, n + 1, Len(@))]
    /\ wpos' = [wpos EXCEPT ![c] = 0]
    /\ hpc' = [hpc EXCEPT ![c] = "write"]
    /\ UNCHANGED << hostVars, scanVars, mainVars, acceptVars, cstate, sent, echoed, hend >>

\* socket.read returns Ok(0): the peer closed and nothing is left to read.
\* The handler prints "Connection closed" and ends.
HandlerReadEof(c) ==
    /\ hpc[c] = "read"
    /\ inbuf[c] = << >>
    /\ cstate[c] = "closed"
    /\ hpc' = [hpc EXCEPT ![c] = "done"]
    /\ hend' = [hend EXCEPT ![c] = "eof"]
    /\ UNCHANGED << hostVars, scanVars, mainVars, acceptVars, clientVars >>
    /\ UNCHANGED << buffer, hn, wpos, rcvd, echoed >>

\* socket.read returns Err: the handler prints the error and ends.
HandlerReadErr(c) ==
    /\ hpc[c] = "read"
    /\ hpc' = [hpc EXCEPT ![c] = "done"]
    /\ hend' = [hend EXCEPT ![c] = "readerr"]
    /\ UNCHANGED << hostVars, scanVars, mainVars, acceptVars, clientVars >>
    /\ UNCHANGED << buffer, hn, wpos, rcvd, echoed >>

\* Mutant of HandlerWrite: write in place of write_all, so the handler reads
\* again after one write, whether or not it took the whole slice.
HandlerWriteOnce(c) ==
    /\ hpc[c] = "write"
    /\ \E k \in 1..(Len(EchoSlice(c)) - wpos[c]) :
          /\ echoed' = [echoed EXCEPT ![c] =
                          @ \o SubSeq(EchoSlice(c), wpos[c] + 1, wpos[c] + k)]
          /\ wpos' = [wpos EXCEPT ![c] = @ + k]
          /\ hpc' = [hpc EXCEPT ![c] = "read"]
    /\ UNCHANGED << hostVars, scanVars, mainVars, acceptVars, clientVars, buffer, hn, rcvd, hend >>

\* One write of write_all's loop: some of the bytes of the slice not yet
\* written go out; after the last of them the handler reads again.
HandlerWrite(c) ==
    /\ hpc[c] = "write"
    /\ \E k \in 1..(Len(EchoSlice(c)) - wpos[c]) :
          /\ echoed' = [echoed EXCEPT ![c] =
                          @ \o SubSeq(EchoSlice(c), wpos[c] + 1, wpos[c] + k)]
          /\ wpos' = [wpos EXCEPT ![c] = @ + k]
          /\ hpc' = [hpc EXCEPT ![c] =
                       IF wpos[c] + k = Len(EchoSlice(c)) THEN "read" ELSE "write"]
    /\ UNCHANGED << hostVars, scanVars, mainVars, acceptVars, clientVars, buffer, hn, rcvd, hend >>

\* Mutant of HandlerWriteErr: the error is unwrapped and the panic is set to
\* abort the process, which ends main too.
HandlerWriteErrFatal(c) ==
    /\ hpc[c] = "write"
    /\ hpc' = [hpc EXCEPT ![c] = "done"]
    /\ hend' = [hend EXCEPT ![c] = "writeerr"]
    /\ mainPc' = "panicked"
    /\ listener' = [f \in Families |-> None]
    /\ UNCHANGED << hostVars, scanVars, port, envSteps, acceptVars, clientVars >>
    /\ UNCHANGED << buffer, hn, wpos, rcvd, echoed >>

\* write_all returns Err: the handler prints the error and ends.
HandlerWriteErr(c) ==
    /\ hpc[c] = "write"
    /\ hpc' = [hpc EXCEPT ![c] = "done"]
    /\ hend' = [hend EXCEPT ![c] = "writeerr"]
    /\ UNCHANGED << hostVars, scanVars, mainVars, acceptVars, clientVars >>
    /\ UNCHANGED << buffer, hn, wpos, rcvd, echoed >>

\* ------------------------------------------------ the scanner on its own
\* find_available_port_parallel(start, end) for every pair of arguments and
\* every occupancy of the ports, which stays fixed during the scan.  The
\* host's families are separate here: on a dual-stack host a port occupied
\* on one family makes the probe's two binds fail as they do here on a port
\* occupied on both.  SpecMain and SpecZero run the scan on either host.

ScanInit ==
    /\ start \in Ports
    /\ end \in Ports
    /\ occ \in SUBSET ((Ports \ {0}) \X Families)
    /\ dualStack = FALSE
    /\ HostInfoDone
    /\ tasks = << >>
    /\ pst = [p \in Ports |-> "unspawned"]
    /\ psock = [p \in Ports |-> [f \in Families |-> "todo"]]
    /\ pres = [p \in Ports |-> None]
    /\ scanPc = "spawn"
    /\ idx = 0
    /\ result = None
    /\ mainPc = "scan"
    /\ port = None
    /\ listener = [f \in Families |-> None]
    /\ envSteps = 0
    /\ NoConnections

ScanNext ==
    \/ ScanSpawn
    \/ ScanCollected
    \/ \E p \in Ports, f \in Families : CheckPortBind(p, f)
    \/ \E p \in Ports, f \in Families : CheckPortDrop(p, f)
    \/ \E p \in Ports : ProbeComplete(p)
    \/ \E p \in Ports : ProbeAbort(p)
    \/ ScanAwait
    \/ ScanExhausted

SpecScan == ScanInit /\ [][ScanNext]_vars

\* ------------------------------------------------------ main's start-up
\* main from its call of the scanner to the two accept loops, with sockets
\* outside the program coming and going at any time and clients connecting
\* as soon as a listener is bound.  The handlers the loops spawn are
\* followed in SpecServe.

MainInit ==
    /\ start = MainStart
    /\ end = MainEnd
    /\ occ \in SUBSET (PortRange(MainStart, MainEnd) \X Families)
    /\ dualStack \in BOOLEAN
    /\ HostInfoDone
    /\ tasks = << >>
    /\ pst = [p \in Ports |-> "unspawned"]
    /\ psock = [p \in Ports |-> [f \in Families |-> "todo"]]
    /\ pres = [p \in Ports |-> None]
    /\ scanPc = "spawn"
    /\ idx = 0
    /\ result = None
    /\ mainPc = "scan"
    /\ port = None
    /\ listener = [f \in Families |-> None]
    /\ envSteps = 0
    /\ NoConnections

MainNext ==
    \/ ScanNext
    \/ MainScanDone
    \/ MainBind
    \/ \E p \in PortRange(MainStart, MainEnd), f \in Families : ExternalBind(p, f)
    \/ \E p \in PortRange(MainStart, MainEnd), f \in Families : ExternalRelease(p, f)
    \/ \E c \in Conns, f \in Families : ClientConnect(c, f)
    \/ \E f \in Families : AcceptOk(f)
    \/ \E f \in Families : AcceptErr(f)

SpecMain == MainInit /\ [][MainNext]_vars

\* ------------------------------------------------------------- serving
\* The program from the moment main enters tokio::join! of the two accept
\* loops: the scan found every port of the range free and returned the
\* first, every probe has ended, both listeners are bound on that port
\* (which is possible only on a host that is not dual-stack).
\* The handlers are followed here; accept errors, which touch no handler,
\* are followed in SpecMain and SpecAccept.

ServeInit ==
    /\ start = MainStart
    /\ end = MainEnd
    /\ occ = {}
    /\ dualStack = FALSE
    /\ HostInfoDone
    /\ tasks = [i \in 1..(MainEnd - MainStart + 1) |-> MainStart + i - 1]
    /\ pst = [p \in Ports |-> IF p \in PortRange(MainStart, MainEnd)
                              THEN "done" ELSE "unspawned"]
    /\ psock = [p \in Ports |-> [f \in Families |->
                  IF p \in PortRange(MainStart, MainEnd) THEN "ok" ELSE "todo"]]
    /\ pres = [p \in Ports |-> IF p \in PortRange(MainStart, MainEnd)
                               THEN Some(<< p, TRUE >>) ELSE None]
    /\ scanPc = "done"
    /\ idx = 1
    /\ result = Some(MainStart)
    /\ mainPc = "serving"
    /\ port = Some(MainStart)
    /\ listener = [f \in Families |-> Some(MainStart)]
    /\ envSteps = 0
    /\ NoConnections

ServeNext ==
    \/ \E c \in Conns, f \in Families : ClientConnect(c, f)
    \/ \E f \in Families : AcceptOk(f)
    \/ \E c \in Conns : ClientSend(c)
    \/ \E c \in Conns : ClientSendEmpty(c)
    \/ \E c \in Conns : ClientClose(c)
    \/ \E c \in Conns : HandlerRead(c)
    \/ \E c \in Conns : HandlerReadEof(c)
    \/ \E c \in Conns : HandlerReadErr(c)
    \/ \E c \in Conns : HandlerWrite(c)
    \/ \E c \in Conns : HandlerWriteErr(c)

SpecServe == ServeInit /\ [][ServeNext]_vars

\* ------------------------------------------------------ the two loops
\* Serving under fair scheduling, for what the accept loops eventually do:
\* clients connect to either listener and close, accept() succeeds or fails,
\* handlers end.  What the handlers read and write is followed in SpecServe.

AcceptNext ==
    \/ \E c \in Conns, f \in Families : ClientConnect(c, f)
    \/ \E f \in Families : AcceptOk(f)
    \/ \E f \in Families : AcceptErr(f)
    \/ \E c \in Conns : ClientClose(c)
    \/ \E c \in Conns : HandlerReadEof(c)
    \/ \E c \in Conns : HandlerReadErr(c)

\* join! polls both loops whenever main's task runs, and a connection that
\* waits on a listener makes it run: a loop whose accept() can return a
\* connection gets to take it.
AcceptFairness == \A f \in Families : WF_vars(AcceptOk(f))

SpecAccept == ServeInit /\ [][AcceptNext]_vars /\ AcceptFairness

\* ------------------------------------------------------ one connection
\* Serving with a single client, which sends one byte more than BufSize
\* needs for a long read to be followed by a short one.

\* The connection that is made in this specification.
ChunkConns == {1}

ChunkNext ==
    \/ \E c \in ChunkConns, f \in Families : ClientConnect(c, f)
    \/ \E f \in Families : AcceptOk(f)
    \/ \E c \in Conns : ClientSendWithin(c, MaxBytes + 1)
    \/ \E c \in Conns : ClientSendEmpty(c)
    \/ \E c \in Conns : ClientClose(c)
    \/ \E c \in Conns : HandlerRead(c)
    \/ \E c \in Conns : HandlerReadEof(c)
    \/ \E c \in Conns : HandlerReadErr(c)
    \/ \E c \in Conns : HandlerWrite(c)
    \/ \E c \in Conns : HandlerWriteErr(c)

SpecChunk == ServeInit /\ [][ChunkNext]_vars

\* ---------------------------------------------------------------- echo
\* Serving under fair scheduling, for what a handler eventually does: two
\* clients connect, to either listener.  Accept errors, which touch no
\* handler, are left out.

\* The connections that are made in this specification.
EchoConns == {c \in Conns : c <= 2}

EchoNext ==
    \/ \E c \in EchoConns, f \in Families : ClientConnect(c, f)
    \/ \E f \in Families : AcceptOk(f)
    \/ \E c \in Conns : ClientSend(c)
    \/ \E c \in Conns : ClientSendEmpty(c)
    \/ \E c \in Conns : ClientClose(c)
    \/ \E c \in Conns : HandlerRead(c)
    \/ \E c \in Conns : HandlerReadEof(c)
    \/ \E c \in Conns : HandlerReadErr(c)
    \/ \E c \in Conns : HandlerWrite(c)
    \/ \E c \in Conns : HandlerWriteErr(c)

\* tokio runs every task that can make progress: a handler whose socket has
\* bytes to read gets to read them, and one inside write_all gets to write
\* (the peer keeps taking its echo).
EchoFairness ==
    \A c \in Conns : WF_vars(HandlerRead(c)) /\ WF_vars(HandlerWrite(c))

SpecEcho == ServeInit /\ [][EchoNext]_vars /\ EchoFairness

\* ------------------------------------------------- a range with port 0
\* main's match on find_available_port_parallel(0, end), as it would run
\* were the range main passes to start at port 0: the scan, the two binds
\* and the sockets outside the program.

ZeroInit ==
    /\ start = 0
    /\ end \in {p \in Ports : p <= 1}
    /\ occ \in SUBSET (PortRange(1, 1) \X Families)
    /\ dualStack \in BOOLEAN
    /\ HostInfoDone
    /\ tasks = << >>
    /\ pst = [p \in Ports |-> "unspawned"]
    /\ psock = [p \in Ports |-> [f \in Families |-> "todo"]]
    /\ pres = [p \in Ports |-> None]
    /\ scanPc = "spawn"
    /\ idx = 0
    /\ result = None
    /\ mainPc = "scan"
    /\ port = None
    /\ listener = [f \in Families |-> None]
    /\ envSteps = 0
    /\ NoConnections

ZeroNext ==
    \/ ScanNext
    \/ MainScanDone
    \/ MainBind
    \/ \E p \in PortRange(1, 1), f \in Families : ExternalBind(p, f)
    \/ \E p \in PortRange(1, 1), f \in Families : ExternalRelease(p, f)

SpecZero == ZeroInit /\ [][ZeroNext]_vars

\* ------------------------------------------------------- the host lookups
\* main from its first line to its call of the scanner: get_host_info with
\* every outcome of the four lookups, under fair scheduling.

HostInit ==
    /\ lookup = [fld \in Fields |-> None]
    /\ timer = [fld \in Fields |-> FALSE]
    /\ joined = [fld \in Fields |-> None]
    /\ info = None
    /\ start = MainStart
    /\ end = MainEnd
    /\ occ = {}
    /\ dualStack = FALSE
    /\ tasks = << >>
    /\ pst = [p \in Ports |-> "unspawned"]
    /\ psock = [p \in Ports |-> [f \in Families |-> "todo"]]
    /\ pres = [p \in Ports |-> None]
    /\ scanPc = "spawn"
    /\ idx = 0
    /\ result = None
    /\ mainPc = "hostinfo"
    /\ port = None
    /\ listener = [f \in Families |-> None]
    /\ envSteps = 0
    /\ NoConnections

HostNext ==
    \/ \E fld \in Fields : \E raw \in RawOf(fld) : LookupReturn(fld, raw)
    \/ \E fld \in Fields : TimerElapse(fld)
    \/ \E fld \in Fields : TimeoutPoll(fld)
    \/ GetHostInfoReturn

\* Time passes and the runtime polls a task that can make progress.
HostFairness ==
    /\ \A fld \in Fields : WF_vars(TimerElapse(fld)) /\ WF_vars(TimeoutPoll(fld))
    /\ WF_vars(GetHostInfoReturn)

SpecHost == HostInit /\ [][HostNext]_vars /\ HostFairness

\* The state SpecServe starts from, which SpecMain reaches.
ServeInitReached ==
    /\ occ = {}
    /\ ~dualStack
    /\ \A p \in PortRange(MainStart, MainEnd) : pst[p] = "done"
    /\ result = Some(MainStart)
    /\ mainPc = "serving"
    /\ listener = [f \in Families |-> Some(MainStart)]
    /\ envSteps = 0
    /\ NoConnections

\* ------------------------------------------------- claims about the scan

\* Port p accepts a bind on both families as far as the sockets outside the
\* program go.
FreeBoth(p) == p = 0 \/ (<<p, 4>> \notin occ /\ <<p, 6>> \notin occ)

\* The ports of the range that are free on both families.
FreeInRange == {p \in PortRange(start, end) : FreeBoth(p)}

\* The probes the for loop has looked at so far.
Inspected == {tasks[i] : i \in 1..(IF idx <= Len(tasks) THEN idx ELSE Len(tasks))}

\* The probe of p completed with available = true.
ReportedAvailable(p) == pst[p] = "done" /\ pres[p][1][2]

\* C1: with a fixed occupancy and every inspected probe running to its end,
\* the scan returns the lowest port of the range that is free on both
\* families (start when all are free, k when start..k-1 are occupied and k
\* is free), never a higher one, whatever the order the probes complete in.
C1_ReturnsLowestFree ==
    (scanPc = "done" /\ \A p \in Inspected : pst[p] # "failed")
        => /\ \A k \in FreeInRange :
                (\A q \in FreeInRange : k <= q) => result = Some(k)
           /\ result # None =>
                /\ result[1] \in FreeInRange
                /\ \A q \in FreeInRange : result[1] <= q

\* C1's case: the scan returned the lowest free port k (not port 0, which
\* is always free) although the probe of a higher port has completed and
\* reported available.
C1_Witness ==
    /\ scanPc = "done"
    /\ result # None
    /\ result[1] # 0
    /\ \A p \in Inspected : pst[p] # "failed"
    /\ \E q \in PortRange(start, end) : q > result[1] /\ ReportedAvailable(q)

\* C2: a completed probe reports available exactly when both of its binds
\* succeeded, which is exactly when neither family of the port is occupied;
\* with exactly one family occupied (either one) it reports false.
C2_AvailableIffBothBind ==
    \A p \in Ports :
        pst[p] = "done" =>
            /\ pres[p][1][1] = p
            /\ pres[p][1][2] <=> (psock[p][4] = "ok" /\ psock[p][6] = "ok")
            /\ pres[p][1][2] <=> FreeBoth(p)
            /\ ((<<p, 4>> \in occ) # (<<p, 6>> \in occ)) => ~pres[p][1][2]

\* C2's case: one probe completed with only IPv4 occupied, another with only
\* IPv6 occupied, and a third with both binds successful.
C2_Witness ==
    /\ \E p \in Ports :
          pst[p] = "done" /\ <<p, 4>> \in occ /\ <<p, 6>> \notin occ /\ ~pres[p][1][2]
    /\ \E p \in Ports :
          pst[p] = "done" /\ <<p, 4>> \notin occ /\ <<p, 6>> \in occ /\ ~pres[p][1][2]
    /\ \E p \in Ports : pst[p] = "done" /\ pres[p][1][2]

\* C3: when every port of the range is occupied on at least one family, the
\* scan returns None, and does so by running off the end of the task list
\* after it has inspected one probe per port of the range.
C3_AllOccupiedReturnsNone ==
    (scanPc = "done" /\ FreeInRange = {})
        => /\ result = None
           /\ idx = Len(tasks) + 1
           /\ Len(tasks) = Cardinality(PortRange(start, end))

\* C3's case: a range of at least two ports, all occupied, some on one
\* family only, scanned to its end.
C3_Witness ==
    /\ scanPc = "done"
    /\ start < end
    /\ FreeInRange = {}
    /\ \E p \in PortRange(start, end) : <<p, 4>> \notin occ
    /\ \A p \in PortRange(start, end) : pst[p] = "done"
    /\ result = None

\* C4: with start > end no probe task is ever launched, no bind is ever
\* attempted, and the scan returns None.
C4_EmptyRangeNoProbe ==
    start > end
        => /\ tasks = << >>
           /\ \A p \in Ports : pst[p] = "unspawned"
           /\ \A p \in Ports, f \in Families : psock[p][f] = "todo"
           /\ scanPc = "done" => result = None

\* C4's case: a scan of a backwards range, over ports that are free, has
\* returned.
C4_Witness ==
    /\ start > end
    /\ scanPc = "done"
    /\ \E p \in Ports : end <= p /\ p <= start /\ FreeBoth(p)

\* C5: a probe that did not complete counts as "not available": the scan
\* goes past it, and what it returns is the lowest port of the range whose
\* probe completed with available = true, or None when there is no such
\* probe.
C5_FailedProbeSkipped ==
    scanPc = "done"
        => /\ result # None =>
                /\ ReportedAvailable(result[1])
                /\ \A q \in PortRange(start, end) :
                      q < result[1] => ~ReportedAvailable(q)
           /\ result = None =>
                /\ \A q \in PortRange(start, end) :
                      pst[q] \in {"done", "failed"} /\ ~ReportedAvailable(q)

\* C5's case: the probe of a free port q failed, the scan went past it and
\* returned a higher port.
C5_Witness ==
    /\ scanPc = "done"
    /\ result # None
    /\ \E q \in PortRange(start, end) :
          q < result[1] /\ pst[q] = "failed" /\ FreeBoth(q)

\* ------------------------------------------------- claims about start-up

\* Neither accept loop has accepted a connection, no handler exists.
NoAcceptYet ==
    /\ \A f \in Families : accepted[f] = << >>
    /\ \A c \in Conns : hpc[c] = "none"

C6_State ==
    /\ port # None => scanPc = "done" /\ port = result
    /\ \A f \in Families : listener[f] # None => port # None /\ listener[f] = port
    /\ (scanPc = "done" /\ result = None)
          => /\ mainPc \in {"scan", "exited"}
             /\ port = None
             /\ \A f \in Families : listener[f] = None
             /\ NoAcceptYet
    /\ mainPc = "exited" => scanPc = "done" /\ result = None

C6_Step ==
    /\ port # None => port' = port
    /\ \A f \in Families : listener[f] # None => listener'[f] \in {listener[f], None}

\* C6: at most one port is ever selected.  A real listener is bound only
\* after the scanner returned Some(p), on exactly that p, and neither the
\* selected port nor a listener's port ever changes; when the scanner
\* returns None main gives up: it binds no listener and starts no accept loop.
C6_OnePortSelected == []C6_State /\ [][C6_Step]_vars

\* C6's case: the scan passed over an occupied port, returned a higher one,
\* and both listeners are bound on it and serving.
C6_Witness ==
    /\ mainPc = "serving"
    /\ result # None
    /\ result[1] > start
    /\ \A f \in Families : listener[f] = result
    /\ \E f \in Families : accepted[f] # << >>

C7_State ==
    /\ mainPc = "panicked"
          => /\ \A f \in Families : listener[f] = None
             /\ NoAcceptYet
    /\ mainPc = "serving" => \A f \in Families : listener[f] # None
    /\ ~NoAcceptYet => mainPc = "serving"

C7_Step ==
    /\ (mainPc \in {"bind4", "bind6"} /\ mainPc' # mainPc /\ ~CanBind(port[1], BindFamily))
          => mainPc' = "panicked"
    /\ mainPc = "panicked"
          => UNCHANGED << tasks, pst, psock, pres, scanPc, idx, result,
                          mainPc, port, listener, acceptVars >>

\* C7: a real bind that fails panics main for good: nothing of the program
\* moves afterwards (no retry, no re-scan), no listener is left and no
\* accept loop has run or will run, not even on an IPv4 listener that was
\* already bound; accept loops run only with both listeners bound.
C7_BindFailureFatal == []C7_State /\ [][C7_Step]_vars

\* C7's case: the IPv4 listener was bound and a client was waiting on it
\* when the IPv6 bind failed.
C7_Witness ==
    /\ mainPc = "panicked"
    /\ backlog[4] # << >>
    /\ <<port[1], 6>> \in occ

\* ---------------------------------------------------- claims about serving

IsPrefix(s, t) == Len(s) <= Len(t) /\ SubSeq(t, 1, Len(s)) = s

\* The handler of c stopped on an I/O error.
IoError(c) == hend[c] \in {"readerr", "writeerr"}

C8_Prefix ==
    \A c \in Conns :
        /\ IsPrefix(echoed[c], rcvd[c])
        /\ IsPrefix(rcvd[c], sent[c])
        /\ hpc[c] = "done" => IoError(c) \/ (hend[c] = "eof" /\ cstate[c] = "closed")
        /\ hend[c] = "eof" => echoed[c] = sent[c]

C8_Echoed ==
    \A c \in Conns : \A k \in 1..MaxBytes :
        (hpc[c] # "none" /\ Len(sent[c]) >= k) ~> (Len(echoed[c]) >= k \/ IoError(c))

\* C8: on every connection the bytes written back are at every moment a
\* prefix of the bytes read, themselves a prefix of the bytes the peer sent;
\* the handler ends only on the peer's close (with everything echoed) or on
\* an I/O error, and on an accepted connection every byte the peer sent is
\* eventually written back unless an I/O error ends the handler.
C8_Echo == []C8_Prefix /\ C8_Echoed

\* C8's case: a client sent several bytes, the handler read them in more
\* than one chunk, the last shorter than its buffer, echoed all of them and
\* ended on the peer's close.
C8_Witness ==
    \E c \in Conns :
        /\ hend[c] = "eof"
        /\ Len(sent[c]) = MaxBytes
        /\ echoed[c] = sent[c]
        /\ hn[c] < Len(sent[c])
        /\ hn[c] < BufSize

\* C9: every byte written back on a connection is a byte that was read on
\* that same connection (and so one its own client sent).
C9_NoCrossTalk ==
    \A c \in Conns : \A i \in 1..Len(echoed[c]) :
        /\ \E j \in 1..Len(rcvd[c]) : echoed[c][i] = rcvd[c][j]
        /\ \E j \in 1..MaxBytes : echoed[c][i] = Stamp(c, j)

\* C9's case: two connections accepted by the same loop; the handler of one
\* has echoed its bytes while the handler of the other holds a chunk it has
\* read and not yet written.
C9_Witness ==
    \E f \in Families : \E c, d \in Conns :
        /\ accepted[f] = << c, d >>
        /\ echoed[c] # << >> /\ echoed[c] = sent[c]
        /\ hpc[d] = "write" /\ rcvd[d] # << >> /\ echoed[d] = << >>

\* C10: whenever a connection waits in a listener's queue the loop's accept
\* can take it, whatever the handlers spawned earlier are doing; every
\* accepted connection has a handler of its own.
C10_AcceptNeverWaits ==
    \A f \in Families :
        /\ backlog[f] # << >> => ENABLED AcceptOk(f)
        /\ \A i \in 1..Len(accepted[f]) : hpc[accepted[f][i]] # "none"

\* C10's case: a loop accepted a second connection while the handler of the
\* first, which has not finished, was still in its first read.
C10_Witness ==
    \E f \in Families : \E c, d \in Conns :
        /\ accepted[f] = << c, d >>
        /\ hpc[c] = "read" /\ rcvd[c] = << >>
        /\ hpc[d] = "done"

\* ------------------------------------------- claims about the accept loops

C11_State ==
    \A f \in Families :
        acceptErrAt[f] # None
            => /\ mainPc = "serving"
               /\ listener[f] # None
               /\ acceptErrAt[f][1] <= Len(accepted[f])
               /\ backlog[f] # << >> => ENABLED AcceptOk(f)

C11_Step ==
    /\ mainPc = "serving" => mainPc' = "serving" /\ listener' = listener
    /\ \A f \in Families :
          acceptErrAt'[f] # acceptErrAt[f] => UNCHANGED << backlog, accepted, hpc >>
    /\ \A c \in Conns :
          (hpc[c] = "none" /\ hpc'[c] # "none")
              => \E f \in Families : /\ backlog[f] # << >>
                                     /\ Head(backlog[f]) = c
                                     /\ accepted'[f] = Append(accepted[f], c)

\* C11: an accept error ends nothing.  The step on which accept() returns
\* Err spawns no handler and takes nothing from the queue; afterwards main is
\* still serving with the listener bound, and the loop accepts the next
\* waiting connection; a handler is spawned only for a connection that an
\* accept() returned.  Once main is serving it stays so: neither loop exits.
C11_AcceptErrorNonFatal == []C11_State /\ [][C11_Step]_vars

\* C11's case: the first accept() of a loop returned Err, and the loop then
\* accepted a connection and spawned its handler, while the other loop's
\* accept() has failed after it had accepted one.
C11_Witness ==
    \E f, g \in Families :
        /\ f # g
        /\ acceptErrAt[f] = Some(0)
        /\ accepted[f] # << >>
        /\ hpc[accepted[f][1]] = "read"
        /\ acceptErrAt[g] = Some(1)

\* ------------------------------------------------- claims about the lookups

\* What the field must hold given what its own lookup did: an address only
\* when the lookup came back, before its timeout resolved, with an address
\* of the field's family.
C12_Expected(fld) ==
    IF lookup[fld] = None
    THEN None
    ELSE IF fld \in LocalFields
         THEN IF lookup[fld][1][1] = "ok" /\ lookup[fld][1][2] = FamilyOf(fld)
              THEN Some(lookup[fld][1][3])
              ELSE None
         ELSE lookup[fld][1]

C12_State ==
    /\ mainPc \in {"hostinfo", "scan"}
    /\ info # None =>
          /\ mainPc = "scan"
          /\ \A fld \in Fields : info[1][fld] = C12_Expected(fld)
    /\ \A fld \in Fields :
          (joined[fld] # None /\ joined[fld][1][1] = "Err") => lookup[fld] = None

\* C12: get_host_info returns, whatever the four lookups do, and main goes
\* on to the scan.  Each field of what it returns is decided by its own
\* lookup alone: absent when that lookup hung or outlived the timeout, came
\* back with an error, a panic or an address of the other family, and
\* otherwise the address that lookup returned.
C12_HostInfoIndependent == []C12_State /\ <>(info # None)

\* C12's case: get_host_info returned with one lookup that never came back,
\* one that came back with an error, and two that came back with addresses,
\* which the HostInfo holds.
C12_Witness ==
    /\ info # None
    /\ lookup["public_ipv4"] = None
    /\ lookup["local_ipv4"] # None /\ lookup["local_ipv4"][1][1] = "err"
    /\ info[1]["local_ipv6"] # None
    /\ info[1]["public_ipv6"] # None

\* ------------------------------------------------ claims about the handler

\* Everything of connection d that its handler or its client can change.
ConnOf(d) ==
    << hpc[d], buffer[d], hn[d], wpos[d], rcvd[d], echoed[d], hend[d], inbuf[d], cstate[d] >>

C13_State ==
    /\ mainPc = "serving"
    /\ \A c \in Conns :
          /\ hpc[c] = "done" <=> hend[c] \in {"eof", "readerr", "writeerr"}
          /\ hpc[c] # "done" => hend[c] = ""
          /\ (hpc[c] = "read" /\ inbuf[c] # << >>) => ENABLED HandlerRead(c)
          /\ hpc[c] = "write" => ENABLED HandlerWrite(c)
    /\ \A f \in Families : backlog[f] # << >> => ENABLED AcceptOk(f)

C13_Step ==
    \A c \in Conns :
        /\ (hpc[c] # "done" /\ hpc'[c] = "done")
              => /\ \/ hend'[c] = "eof" /\ hpc[c] = "read" /\ inbuf[c] = << >>
                    \/ hend'[c] = "readerr" /\ hpc[c] = "read"
                    \/ hend'[c] = "writeerr" /\ hpc[c] = "write"
                 /\ \A d \in Conns \ {c} : ConnOf(d)' = ConnOf(d)
                 /\ UNCHANGED << mainPc, listener, acceptVars >>
        /\ hpc[c] = "done" => hpc'[c] = "done" /\ hend'[c] = hend[c]
        /\ (hpc[c] = "read" /\ hpc'[c] = "write") => /\ hn'[c] > 0
                                                      /\ hend'[c] = ""
        /\ (hpc[c] = "write" /\ hpc'[c] \in {"read", "write"}) => hend'[c] = ""

\* C13: a handler ends on exactly three events, a read of zero bytes, a
\* failed read and a failed write, and on none other: a read of n > 0 bytes
\* goes on to the write and a write that succeeds goes on.  The step that
\* ends one handler changes nothing of any other connection, of main, of the
\* listeners or of the accept loops, and afterwards every other handler and
\* both loops can still take their next step.
C13_HandlerStops == []C13_State /\ [][C13_Step]_vars

\* C13's case: the handler of one connection ended on a failed write with
\* the chunk it had read not echoed, while the handler of another holds
\* a chunk it is writing back.
C13_Witness ==
    \E c, d \in Conns :
        /\ c # d
        /\ hend[c] = "writeerr" /\ rcvd[c] # << >> /\ echoed[c] = << >>
        /\ hpc[d] = "write" /\ rcvd[d] # << >>

\* ------------------------------------------ claims about the scan's order

\* How many ports [start, end] holds.
RangeLen == IF start <= end THEN end - start + 1 ELSE 0

\* C14: the task list is start, start + 1, ... in this order, one task per
\* port, and holds end - start + 1 tasks (none when start > end) once the
\* scanner leaves the spawning phase, also when end is the highest port
\* there is; the scanner inspects nothing, and has returned nothing, while
\* it still spawns.  A port outside the range is never probed and no port
\* has two tasks.
C14_OneProbePerPort ==
    /\ Len(tasks) <= RangeLen
    /\ \A i \in 1..Len(tasks) : tasks[i] = start + i - 1
    /\ \A i, j \in 1..Len(tasks) : tasks[i] = tasks[j] => i = j
    /\ \A p \in Ports : pst[p] # "unspawned" <=> \E i \in 1..Len(tasks) : tasks[i] = p
    /\ \A p \in Ports, f \in Families : psock[p][f] # "todo" => pst[p] # "unspawned"
    /\ scanPc = "spawn" => idx = 0 /\ result = None
    /\ scanPc # "spawn" =>
          /\ Len(tasks) = RangeLen
          /\ \A p \in Ports : (start <= p /\ p <= end) => pst[p] # "unspawned"

\* C14's case: a range of several ports that ends on the highest port there
\* is; all its probes are launched, one has already ended, and the scanner
\* has not inspected any yet.
C14_Witness ==
    /\ start < end
    /\ end = MaxPort
    /\ scanPc = "await"
    /\ idx = 1
    /\ Len(tasks) = end - start + 1
    /\ pst[end] = "done"
    /\ pst[start] = "running"

\* The probe of the i-th task ended and did not report its port available.
FoundUnavailable(i) ==
    /\ pst[tasks[i]] \in {"done", "failed"}
    /\ ~ReportedAvailable(tasks[i])

\* C15: the scanner's position moves through the task list, which is in
\* ascending port order, one task at a time and only past a probe that has
\* ended without reporting its port available; it waits at a probe that is
\* still running whatever the probes of higher ports have already reported.
\* It returns at the first probe that reports available, and once it has
\* returned its position stays there: it inspects nothing more.
C15_AscendingInspection ==
    /\ scanPc \in {"await", "done"} =>
          /\ idx \in 1..(Len(tasks) + 1)
          /\ \A i \in 1..(idx - 1) : FoundUnavailable(i)
          /\ \A i, j \in 1..Len(tasks) : i < j => tasks[i] < tasks[j]
    /\ (scanPc = "done" /\ result # None) =>
          /\ idx <= Len(tasks)
          /\ result = Some(tasks[idx])
          /\ ReportedAvailable(tasks[idx])
    /\ (scanPc = "done" /\ result = None) => idx = Len(tasks) + 1
    /\ (scanPc = "await" /\ idx <= Len(tasks) /\ pst[tasks[idx]] = "running")
          => ~ENABLED ScanAwait

\* C15's case: the scanner has gone past the first port of the range and
\* waits at the probe of the second, which is still running, while the probe
\* of a higher port has already reported its port available.
C15_Witness ==
    /\ scanPc = "await"
    /\ idx = 2
    /\ Len(tasks) >= 3
    /\ pst[tasks[2]] = "running"
    /\ ReportedAvailable(tasks[3])

\* ------------------------------------------- claims about the test sockets

\* C16: a test socket is open only inside a running probe, between its bind
\* and the return of its check function.  A probe that has reported holds no
\* socket: both of its binds have ended, each either failed or was closed
\* again; a probe that did not complete holds none either.  A real listener
\* is never a probe's socket: no probe holds the pair a listener is bound on.
C16_ProbeSocketsClosed ==
    /\ \A p \in Ports :
          /\ pst[p] = "unspawned" => \A f \in Families : psock[p][f] = "todo"
          /\ pst[p] = "done" => \A f \in Families : psock[p][f] \in {"ok", "err"}
          /\ pst[p] = "failed" => \A f \in Families : psock[p][f] = "dropped"
          /\ pres[p] # None => pst[p] = "done"
    /\ \A pf \in ProbeHeld :
          /\ pst[pf[1]] = "running"
          /\ pres[pf[1]] = None
          /\ pf[1] # 0 => pf \notin occ /\ pf \notin ListenerHeld

\* C16's case: both real listeners are bound on the port the scan returned,
\* whose probe had bound and closed both of its test sockets, while the
\* probe of another port still holds one.
C16_Witness ==
    /\ mainPc = "serving"
    /\ \A f \in Families : listener[f] = port /\ psock[port[1]][f] = "ok"
    /\ pst[port[1]] = "done"
    /\ \E q \in Ports : q # port[1] /\ psock[q][6] = "bound" /\ psock[q][4] = "err"

\* ------------------------------------------------------ claims about port 0

\* C17: port 0 is a candidate like any other.  When it lies in the range it
\* is the first port probed, and when its probe reports available, which it
\* does whenever it completes, the scan returns Some(0) and main binds both
\* listeners with port 0; each of them then listens on a port the OS picked
\* for it, which is not 0 and need not be the other's.  A listener bound
\* with any other port listens on that very port.
C17_PortZeroNotFiltered ==
    /\ (start = 0 /\ scanPc # "spawn") =>
          /\ tasks # << >> /\ tasks[1] = 0
          /\ pst[0] # "unspawned"
    /\ pst[0] = "done" => pres[0] = Some(<< 0, TRUE >>)
    /\ (start = 0 /\ scanPc = "done" /\ pst[0] = "done") => result = Some(0)
    /\ \A f \in Families :
          listener[f] # None =>
              IF port = Some(0) THEN listener[f][1] \in Ephemeral
                                ELSE listener[f] = port

\* C17's case: the scan returned port 0 and main serves with its two
\* listeners on different ports.
C17_Witness ==
    /\ result = Some(0)
    /\ mainPc = "serving"
    /\ listener[4] # None
    /\ listener[6] # None
    /\ listener[4] # listener[6]

\* ------------------------------------------- claims about the real binds

\* Once the scanner has returned p, the probe of p has ended with both of its
\* test sockets closed, and every socket a probe holds is on its own port,
\* which is not p.
C18_ProbesOffSelectedPort ==
    (scanPc = "done" /\ result # None) =>
        /\ pst[result[1]] = "done"
        /\ \A f \in Families : psock[result[1]][f] = "ok"
        /\ \A pf \in ProbeHeld : pf[1] # result[1]

\* A real bind that fails finds a socket from outside the program on its
\* port.
C18_Step ==
    (mainPc \in {"bind4", "bind6"} /\ mainPc' = "panicked")
        => \E g \in Families : <<port[1], g>> \in occ

\* C18: the probes are never what makes a real bind fail.  When the scanner
\* has returned p no probe holds a socket on p or will bind one, although
\* probes of other ports may still run; so a real bind on p fails only when
\* an actor outside the program holds a socket on p.
C18_OnlyOutsidersBlockBind == []C18_ProbesOffSelectedPort /\ [][C18_Step]_vars

\* ------------------------------------------- claims about the loops' turns

\* Connection c waits in the accept queue of the listener of family f.
Pending(c, f) == \E i \in 1..Len(backlog[f]) : backlog[f][i] = c

Unechoed(c) == SubSeq(rcvd[c], Len(echoed[c]) + 1, Len(rcvd[c]))

\* C20: a read takes at most BufSize bytes; while the handler writes, the
\* bytes read and not yet written back are exactly the rest of that one
\* read's n bytes, buffer[wpos..n], whatever an earlier, longer read left
\* behind them in the buffer; the handler reads again only when all it has
\* read is written back.  So at most BufSize bytes are ever read and not
\* echoed on a connection.
C20_OneChunkAtATime ==
    \A c \in Conns :
        /\ hn[c] <= BufSize
        /\ wpos[c] <= hn[c]
        /\ IsPrefix(echoed[c], rcvd[c])
        /\ Len(Unechoed(c)) <= BufSize
        /\ hpc[c] = "read" => echoed[c] = rcvd[c]
        /\ hpc[c] = "write" =>
              /\ hn[c] >= 1
              /\ wpos[c] < hn[c]
              /\ Unechoed(c) = SubSeq(buffer[c], wpos[c] + 1, hn[c])
        /\ hpc[c] = "done" =>
              /\ hend[c] \in {"eof", "readerr"} => echoed[c] = rcvd[c]
              /\ hend[c] = "writeerr" => Unechoed(c) = SubSeq(buffer[c], wpos[c] + 1, hn[c])

\* C20's case: a read that filled the buffer was followed by a read of one
\* byte, which left the last byte of the first read behind it in the
\* buffer; the handler has written back every byte sent and no other.
C20_Witness ==
    \E c \in Conns :
        /\ Len(sent[c]) = BufSize + 1
        /\ hn[c] = 1
        /\ buffer[c][1] = Stamp(c, BufSize + 1)
        /\ buffer[c][BufSize] = Stamp(c, BufSize)
        /\ echoed[c] = sent[c]

====
